---- MODULE Spec2Model ----
(***************************************************************************)
(* Patent Similarity Finder (src/patent_app.py): one submission of the     *)
(* search form, from input validation through the provider query, the      *)
(* per-candidate fetch/score loop and the result display.                  *)
(*                                                                         *)
(* A Python str is a sequence of one-character strings, so that strip,     *)
(* split, lower and truthiness are computed and not assumed.  A dict is a  *)
(* function whose DOMAIN is its key set.                                   *)
(***************************************************************************)
EXTENDS Integers, Sequences, FiniteSets, TLC

VARIABLES
    pc,                   \* position of the script run
    serp,                 \* what the search provider does when queried
    ratio,                \* the values fuzz.partial_ratio has returned so far
    api_key, new_invention, features_text,
    similarity_threshold, min_feature_matches, max_patents,
    features,             \* parsed feature list (line 169)
    patents,              \* get_patent_results' return value (line 102)
    i,                    \* number of loop iterations completed (line 109)
    patent_text, matches, \* locals of the last iteration that scored (120-121)
    best_patents,         \* line 103
    search_calls,         \* requests sent to the search provider
    scrape_calls,         \* <<position, url>> of every scrape_patent_details call
    compare_calls,        \* <<position, text>> of every compare_features call
    messages              \* st.error / st.warning / st.success output

vars == <<pc, serp, ratio, api_key, new_invention, features_text,
          similarity_threshold, min_feature_matches, max_patents, features,
          patents, i, patent_text, matches, best_patents, search_calls,
          scrape_calls, compare_calls, messages>>

-----------------------------------------------------------------------------
(* Bounds of the model *)

\* sliders: number of threshold steps, minimum-match values and patent
\* counts above the slider minimum that a submission may select
MaxThresholdSteps == 1
MaxMinMatches == 2
MaxExtraPatents == 0

(* Program constants *)
ThresholdMin == 30
ThresholdStep == 5
ThresholdDefault == 40
MinMatchesMin == 1
MinMatchesDefault == 3
MaxPatentsMin == 5
MaxPatentsDefault == 10
SentenceThreshold == 50
MaxJustifications == 3

-----------------------------------------------------------------------------
(* Python str operations *)

UpperLetters == <<"A","B","C","D","E","F","G","H","I","J","K","L","M",
                  "N","O","P","Q","R","S","T","U","V","W","X","Y","Z">>
LowerLetters == <<"a","b","c","d","e","f","g","h","i","j","k","l","m",
                  "n","o","p","q","r","s","t","u","v","w","x","y","z">>

\* the letter's lower-case form, by position in the alphabet
LowerOf == [k \in DOMAIN UpperLetters |-> LowerLetters[k]]
UpperSet == {UpperLetters[k] : k \in DOMAIN UpperLetters}
LowerTable == [c \in UpperSet |-> LowerOf[CHOOSE k \in DOMAIN UpperLetters : UpperLetters[k] = c]]

LowerChar(c) == IF c \in UpperSet THEN LowerTable[c] ELSE c

\* str.lower()
Lower(s) == [k \in 1..Len(s) |-> LowerChar(s[k])]

IsSpace(c) == c \in {" ", "\n", "\t", "\r"}

\* str.strip(): from the first to the last non-space character
Strip(s) ==
    LET kept == {k \in 1..Len(s) : ~IsSpace(s[k])}
    IN  IF kept = {} THEN <<>>
        ELSE SubSeq(s, CHOOSE k \in kept : \A j \in kept : k <= j,
                       CHOOSE k \in kept : \A j \in kept : j <= k)

\* sep occurs in s at position k
OccursAt(s, sep, k) ==
    /\ k + Len(sep) - 1 <= Len(s)
    /\ \A j \in 1..Len(sep) : s[k + j - 1] = sep[j]

\* the positions where str.split(sep) cuts s: scanning from the left, each
\* occurrence of sep that does not overlap the cut before it
SplitPoints(s, sep) ==
    LET cut[k \in 1..Len(s)] ==
            /\ OccursAt(s, sep, k)
            /\ \A j \in 1..(k - 1) : (j + Len(sep) > k) => ~cut[j]
    IN  {k \in 1..Len(s) : cut[k]}

\* str.split(sep) for a non-empty separator
Split(s, sep) ==
    LET points == SplitPoints(s, sep)
        ordered == [n \in 1..Cardinality(points) |->
                       CHOOSE k \in points : Cardinality({j \in points : j < k}) = n - 1]
        first(n) == IF n = 1 THEN 1 ELSE ordered[n - 1] + Len(sep)
        last(n) == IF n > Len(ordered) THEN Len(s) ELSE ordered[n] - 1
    IN  [n \in 1..(Len(ordered) + 1) |-> SubSeq(s, first(n), last(n))]

\* s[:n] for n >= 0
Take(s, n) == SubSeq(s, 1, IF n < Len(s) THEN n ELSE Len(s))

Digits == <<"0","1","2","3","4","5","6","7","8","9">>

\* str(n) for n >= 0
RECURSIVE IntStr(_)
IntStr(n) == IF n < 10 THEN <<Digits[n + 1]>> ELSE IntStr(n \div 10) \o <<Digits[(n % 10) + 1]>>

Min(a, b) == IF a <= b THEN a ELSE b

\* dict: the empty dict and d[k] = v
EmptyDict == [k \in {} |-> {}]
DictSet(d, k, v) == [x \in (DOMAIN d) \cup {k} |-> IF x = k THEN v ELSE d[x]]

-----------------------------------------------------------------------------
(* String literals of the program *)

(* " site:patents.google.com" *)
SiteRestriction ==
    <<" ", "s", "i", "t", "e", ":", "p", "a", "t", "e", "n", "t", "s", ".", "g", "o",
      "o", "g", "l", "e", ".", "c", "o", "m">>

(* "United States" *)
Location ==
    <<"U", "n", "i", "t", "e", "d", " ", "S", "t", "a", "t", "e", "s">>

(* "Error in API search: " *)
ApiErrorPrefix ==
    <<"E", "r", "r", "o", "r", " ", "i", "n", " ", "A", "P", "I", " ", "s", "e", "a",
      "r", "c", "h", ":", " ">>

(* "Error scraping patent details: " *)
ErrorPrefix ==
    <<"E", "r", "r", "o", "r", " ", "s", "c", "r", "a", "p", "i", "n", "g", " ", "p",
      "a", "t", "e", "n", "t", " ", "d", "e", "t", "a", "i", "l", "s", ":", " ">>

(* "No detailed description available." *)
NoDescription ==
    <<"N", "o", " ", "d", "e", "t", "a", "i", "l", "e", "d", " ", "d", "e", "s", "c",
      "r", "i", "p", "t", "i", "o", "n", " ", "a", "v", "a", "i", "l", "a", "b", "l",
      "e", ".">>

(* "No exact sentence found, but feature is present in the patent text." *)
NoSentenceFound ==
    <<"N", "o", " ", "e", "x", "a", "c", "t", " ", "s", "e", "n", "t", "e", "n", "c",
      "e", " ", "f", "o", "u", "n", "d", ",", " ", "b", "u", "t", " ", "f", "e", "a",
      "t", "u", "r", "e", " ", "i", "s", " ", "p", "r", "e", "s", "e", "n", "t", " ",
      "i", "n", " ", "t", "h", "e", " ", "p", "a", "t", "e", "n", "t", " ", "t", "e",
      "x", "t", ".">>

(* "Untitled Patent" *)
UntitledPatent ==
    <<"U", "n", "t", "i", "t", "l", "e", "d", " ", "P", "a", "t", "e", "n", "t">>

(* "Please enter your SerpAPI key in the sidebar." *)
MsgNoKey ==
    <<"P", "l", "e", "a", "s", "e", " ", "e", "n", "t", "e", "r", " ", "y", "o", "u",
      "r", " ", "S", "e", "r", "p", "A", "P", "I", " ", "k", "e", "y", " ", "i", "n",
      " ", "t", "h", "e", " ", "s", "i", "d", "e", "b", "a", "r", ".">>

(* "Please describe your invention." *)
MsgNoInvention ==
    <<"P", "l", "e", "a", "s", "e", " ", "d", "e", "s", "c", "r", "i", "b", "e", " ",
      "y", "o", "u", "r", " ", "i", "n", "v", "e", "n", "t", "i", "o", "n", ".">>

(* "Please enter at least one feature." *)
MsgNoFeatures ==
    <<"P", "l", "e", "a", "s", "e", " ", "e", "n", "t", "e", "r", " ", "a", "t", " ",
      "l", "e", "a", "s", "t", " ", "o", "n", "e", " ", "f", "e", "a", "t", "u", "r",
      "e", ".">>

(* "Please enter valid features (one per line)." *)
MsgNoValidFeatures ==
    <<"P", "l", "e", "a", "s", "e", " ", "e", "n", "t", "e", "r", " ", "v", "a", "l",
      "i", "d", " ", "f", "e", "a", "t", "u", "r", "e", "s", " ", "(", "o", "n", "e",
      " ", "p", "e", "r", " ", "l", "i", "n", "e", ")", ".">>

(* "No patents found with enough feature matches. Try adjusting your search parameters." *)
MsgNoPatents ==
    <<"N", "o", " ", "p", "a", "t", "e", "n", "t", "s", " ", "f", "o", "u", "n", "d",
      " ", "w", "i", "t", "h", " ", "e", "n", "o", "u", "g", "h", " ", "f", "e", "a",
      "t", "u", "r", "e", " ", "m", "a", "t", "c", "h", "e", "s", ".", " ", "T", "r",
      "y", " ", "a", "d", "j", "u", "s", "t", "i", "n", "g", " ", "y", "o", "u", "r",
      " ", "s", "e", "a", "r", "c", "h", " ", "p", "a", "r", "a", "m", "e", "t", "e",
      "r", "s", ".">>

(* "Found {n} patents matching at least {m} features." (line 190) *)
MsgFound(n, m) ==
    <<"F", "o", "u", "n", "d", " ">> \o IntStr(n)
      \o <<" ", "p", "a", "t", "e", "n", "t", "s", " ", "m", "a", "t", "c", "h", "i", "n",
           "g", " ", "a", "t", " ", "l", "e", "a", "s", "t", " ">> \o IntStr(m)
      \o <<" ", "f", "e", "a", "t", "u", "r", "e", "s", ".">>

-----------------------------------------------------------------------------
(* What the user may enter *)

ApiKeys == {<<>>, <<" ">>, <<"k">>}
Inventions == {<<>>, <<" ">>, <<"q">>}

\* "", " \n ", "a", " A \n\na ", "a\nb"
FeatureTexts ==
    { <<>>,
      <<" ", "\n", " ">>,
      <<"a">>,
      <<" ", "A", " ", "\n", "\n", "a", " ">>,
      <<"a", "\n", "b">> }

Thresholds == {ThresholdMin + ThresholdStep * k : k \in 0..MaxThresholdSteps}
MinMatchesChoices == MinMatchesMin..MaxMinMatches
MaxPatentsChoices == MaxPatentsMin..(MaxPatentsMin + MaxExtraPatents)

-----------------------------------------------------------------------------
(* The web: what requests.get and the HTML parser yield for a URL *)

UrlGood == <<"u", "1">>
UrlDown == <<"u", "2">>
UrlBlank == <<"u", "3">>
UrlBadMeta == <<"u", "4">>

NoTag == <<>>

\* A response is a transport failure or a parsed page; a page holds, for each
\* of the three soup.find calls, no tag (None) or the tag found.
requests_get(url) ==
    CASE url = UrlGood ->
           [raises |-> FALSE, msg |-> <<>>,
            meta |-> <<[content |-> <<"x", ".", " ", "X", ".", " ", "x", ".", " ",
                                      "x", ".", " ">>]>>,
            description |-> NoTag, claims |-> NoTag]
      [] url = UrlBlank ->
           [raises |-> FALSE, msg |-> <<>>,
            meta |-> NoTag,
            description |-> <<[text |-> <<" ", " ">>]>>,
            claims |-> <<[text |-> <<"\n">>]>>]
      [] url = UrlBadMeta ->
           [raises |-> FALSE, msg |-> <<>>,
            meta |-> <<[name |-> <<"D", "C">>]>>,
            description |-> <<[text |-> <<"x">>]>>, claims |-> NoTag]
      [] OTHER ->
           [raises |-> TRUE, msg |-> <<"t", "i", "m", "e", "d", " ", "o", "u", "t">>,
            meta |-> NoTag, description |-> NoTag, claims |-> NoTag]

(* The search provider: what GoogleSearch(...).get_dict() may do *)

ResultsLong ==
    << [title |-> <<"T", "1">>, link |-> UrlBlank],
       [title |-> <<"T", "2">>],
       [link |-> UrlDown],
       [title |-> <<"T", "4">>, link |-> <<>>],
       [title |-> <<"T", "5">>, link |-> UrlBlank],
       [title |-> <<"T", "6">>, link |-> UrlDown],
       [title |-> <<"T", "7">>, link |-> UrlBlank] >>

ResultsGood ==
    << [title |-> <<"T", "1">>, link |-> UrlGood] >>

ResultsBad ==
    << [title |-> <<"T", "1">>, link |-> UrlBadMeta],
       [title |-> <<"T", "2">>, link |-> UrlBlank] >>

SerpOutcomes ==
    { [raises |-> TRUE, msg |-> <<"4", "0", "1">>, dict |-> EmptyDict],
      [raises |-> FALSE, msg |-> <<>>, dict |-> [error |-> <<"n", "o", "n", "e">>]],
      [raises |-> FALSE, msg |-> <<>>, dict |-> [organic_results |-> ResultsLong]],
      [raises |-> FALSE, msg |-> <<>>, dict |-> [organic_results |-> ResultsGood]],
      [raises |-> FALSE, msg |-> <<>>, dict |-> [organic_results |-> ResultsBad]] }

(* fuzz.partial_ratio: a library function of two strings into 0..100, read  *)
(* as the table of the values it has returned; the table grows by the       *)
(* arguments of each compare_features call, with values sampled at the      *)
(* cut-offs the program compares a score with: the caller's threshold       *)
(* itself, the sentence cut-off itself, and one above it.                   *)

ScoreSamples(threshold) == {threshold, SentenceThreshold, SentenceThreshold + 1}

Range(s) == {s[k] : k \in DOMAIN s}

\* the argument pairs compare_features may pass to fuzz.partial_ratio
RatioArguments(fs, text) ==
    {<<Lower(f), Lower(t)>> : f \in Range(fs), t \in {text} \cup Range(Split(text, <<".", " ">>))}

RatioExtensions(table, args, threshold) ==
    {table @@ more : more \in [args \ DOMAIN table -> ScoreSamples(threshold)]}

partial_ratio(s1, s2) == ratio[<<s1, s2>>]

-----------------------------------------------------------------------------
(* The program's functions *)

\* get_patent_results without its try/except: the provider's exception leaves it
get_patent_results_uncaught(query, key) ==
    LET request == [q |-> query \o SiteRestriction, location |-> Location, api_key |-> key]
    IN  [request |-> request,
         value |-> IF "organic_results" \in DOMAIN serp.dict
                   THEN serp.dict.organic_results ELSE <<>>,
         shown |-> <<>>,
         raised |-> serp.raises]

\* lines 50-61; the result is the request sent, the value returned, what
\* st.error showed and whether an exception left the function
get_patent_results(query, key) ==
    LET request == [q |-> query \o SiteRestriction, location |-> Location, api_key |-> key]
    IN  IF serp.raises
        THEN [request |-> request, value |-> <<>>,
              shown |-> <<[kind |-> "error", text |-> ApiErrorPrefix \o serp.msg]>>,
              raised |-> FALSE]
        ELSE [request |-> request,
              value |-> IF "organic_results" \in DOMAIN serp.dict
                        THEN serp.dict.organic_results ELSE <<>>,
              shown |-> <<>>,
              raised |-> FALSE]

\* lines 65-82, the body of the try block: the text, or the exception raised
\* (by requests.get, or KeyError('content') by abstract_tag["content"])
scrape_try(url) ==
    LET response == requests_get(url)
        abstract_tag == response.meta
        description_tag == response.description
        claims_section == response.claims
    IN  IF response.raises
        THEN [value |-> <<>>, exception |-> <<response.msg>>]
        ELSE IF abstract_tag # NoTag /\ "content" \notin DOMAIN abstract_tag[1]
        THEN [value |-> <<>>,
              exception |-> << <<"'", "c", "o", "n", "t", "e", "n", "t", "'">> >>]
        ELSE LET abstract == IF abstract_tag # NoTag THEN abstract_tag[1].content ELSE <<>>
                 description == IF description_tag # NoTag
                                THEN Strip(description_tag[1].text) ELSE <<>>
                 claims == IF claims_section # NoTag
                           THEN Strip(claims_section[1].text) ELSE <<>>
                 full_text == abstract \o <<"\n", "\n">> \o description
                                       \o <<"\n", "\n">> \o claims
             IN  [value |-> IF Strip(full_text) # <<>> THEN full_text ELSE NoDescription,
                  exception |-> <<>>]

\* scrape_patent_details without its except clause
scrape_patent_details_uncaught(url) ==
    LET tried == scrape_try(url)
    IN  [value |-> tried.value, raised |-> tried.exception # <<>>]

\* lines 63-84; the result is the value returned and whether an exception
\* left the function
scrape_patent_details(url) ==
    LET tried == scrape_try(url)
    IN  IF tried.exception # <<>>
        THEN [value |-> ErrorPrefix \o tried.exception[1], raised |-> FALSE]
        ELSE [value |-> tried.value, raised |-> FALSE]

\* the dict entry without the [:3]
match_entry_unlimited(score, relevant_sentences) ==
    IF relevant_sentences # <<>>
    THEN [score |-> score, justification |-> relevant_sentences]
    ELSE [score |-> score, justification |-> <<NoSentenceFound>>]

\* lines 94-97: the dict entry of a matched feature
match_entry(score, relevant_sentences) ==
    IF relevant_sentences # <<>>
    THEN [score |-> score, justification |-> Take(relevant_sentences, MaxJustifications)]
    ELSE [score |-> score, justification |-> <<NoSentenceFound>>]

\* lines 88-97: the loop body for features[k], on the dict built so far
RECURSIVE compare_loop(_, _, _, _, _)
compare_loop(fs, text, threshold, k, acc) ==
    IF k > Len(fs) THEN acc
    ELSE LET feature == fs[k]
             score == partial_ratio(Lower(feature), Lower(text))
             sentences == Split(text, <<".", " ">>)
             IsRelevant(s) == partial_ratio(Lower(feature), Lower(s)) > SentenceThreshold
             relevant_sentences == SelectSeq(sentences, IsRelevant)
         IN  IF score > threshold
             THEN compare_loop(fs, text, threshold, k + 1,
                               DictSet(acc, feature, match_entry(score, relevant_sentences)))
             ELSE compare_loop(fs, text, threshold, k + 1, acc)

\* compare_features with "score >= similarity_threshold" at line 90
compare_features_inclusive(fs, text, threshold) ==
    compare_loop(fs, text, threshold - 1, 1, EmptyDict)

\* lines 86-98
compare_features(fs, text, threshold) == compare_loop(fs, text, threshold, 1, EmptyDict)

\* line 169 without the "if feature.strip()" filter
parse_features_unfiltered(text) ==
    LET lines == Split(Strip(text), <<"\n">>)
    IN  [k \in 1..Len(lines) |-> Strip(lines[k])]

\* line 169
parse_features(text) ==
    LET lines == Split(Strip(text), <<"\n">>)
        NonBlank(feature) == Strip(feature) # <<>>
        kept == SelectSeq(lines, NonBlank)
    IN  [k \in 1..Len(kept) |-> Strip(kept[k])]

\* patent.get(key, default)
DictGet(d, key, default) == IF key \in DOMAIN d THEN d[key] ELSE default

\* lines 161-166 without the check of the description
validation_error_key_only(key, invention, text) ==
    IF key = <<>> THEN <<MsgNoKey>>
    ELSE IF text = <<>> THEN <<MsgNoFeatures>>
    ELSE <<>>

\* lines 161-166: the error shown for the first empty field, if any
validation_error(key, invention, text) ==
    IF key = <<>> THEN <<MsgNoKey>>
    ELSE IF invention = <<>> THEN <<MsgNoInvention>>
    ELSE IF text = <<>> THEN <<MsgNoFeatures>>
    ELSE <<>>

\* line 109 without the [:max_patents]
slice_all(results, n) == results

\* line 109: patents[:max_patents]
slice(results, n) == Take(results, n)

\* line 114 with a non-empty default
link_defaulted(patent) == DictGet(patent, "link", <<"#">>)

\* line 114
link_of(patent) == DictGet(patent, "link", <<>>)

\* line 113
title_of(patent) == DictGet(patent, "title", UntitledPatent)

\* lines 123-124 without the condition
append_always(best, record, minimum) == Append(best, record)

\* lines 123-124 with the record put in front
prepend_if_enough(best, record, minimum) ==
    IF Cardinality(DOMAIN record[3]) >= minimum THEN <<record>> \o best ELSE best

\* lines 123-124
append_if_enough(best, record, minimum) ==
    IF Cardinality(DOMAIN record[3]) >= minimum THEN Append(best, record) ELSE best

-----------------------------------------------------------------------------
(* The script run *)

Init ==
    /\ pc = "idle"
    /\ serp \in SerpOutcomes
    /\ ratio = EmptyDict
    /\ api_key = <<>>
    /\ new_invention = <<>>
    /\ features_text = <<>>
    /\ similarity_threshold = ThresholdDefault
    /\ min_feature_matches = MinMatchesDefault
    /\ max_patents = MaxPatentsDefault
    /\ features = <<>>
    /\ patents = <<>>
    /\ i = 0
    /\ patent_text = <<>>
    /\ matches = EmptyDict
    /\ best_patents = <<>>
    /\ search_calls = <<>>
    /\ scrape_calls = <<>>
    /\ compare_calls = <<>>
    /\ messages = <<>>

\* lines 160-172: a validation failure shows one error and ends the run
Reject(text) ==
    /\ messages' = <<[kind |-> "error", text |-> text]>>
    /\ pc' = "rejected"
    /\ UNCHANGED <<features, patents, search_calls>>

\* lines 169-182 and 100-107: parse the features, query the provider
StartSearch ==
    LET parsed == parse_features(features_text')
        result == get_patent_results(new_invention', api_key')
    IN  IF parsed = <<>>
        THEN Reject(MsgNoValidFeatures)
        ELSE /\ features' = parsed
             /\ search_calls' = <<result.request>>
             /\ messages' = result.shown
             /\ patents' = result.value
             /\ pc' = IF result.raised THEN "crashed" ELSE "loop"

\* the user sets the widgets and presses "Search Patents" (lines 138-182)
Submit ==
    /\ pc = "idle"
    /\ api_key' \in ApiKeys
    /\ new_invention' \in Inventions
    /\ features_text' \in FeatureTexts
    /\ similarity_threshold' \in Thresholds
    /\ min_feature_matches' \in MinMatchesChoices
    /\ max_patents' \in MaxPatentsChoices
    /\ LET error == validation_error(api_key', new_invention', features_text')
       IN  IF error # <<>> THEN Reject(error[1]) ELSE StartSearch
    /\ UNCHANGED <<serp, ratio, i, patent_text, matches, best_patents,
                   scrape_calls, compare_calls>>

\* line 109: the list the loop runs over
Candidates == slice(patents, max_patents)

\* lines 109-120: the next candidate is skipped for lack of a link, or its
\* page is fetched; the library's scores for the fetched text become known
FetchPatent ==
    /\ pc = "loop"
    /\ i < Len(Candidates)
    /\ LET link == link_of(Candidates[i + 1])
           scraped == scrape_patent_details(link)
       IN  IF link = <<>>
           THEN /\ i' = i + 1
                /\ UNCHANGED <<pc, ratio, patent_text, scrape_calls>>
           ELSE /\ scrape_calls' = Append(scrape_calls, <<i + 1, link>>)
                /\ IF scraped.raised
                   THEN /\ pc' = "crashed"
                        /\ UNCHANGED <<ratio, patent_text>>
                   ELSE /\ pc' = "score"
                        /\ patent_text' = scraped.value
                        /\ ratio' \in RatioExtensions(ratio,
                                         RatioArguments(features, scraped.value),
                                         similarity_threshold)
                /\ i' = i
    /\ UNCHANGED <<serp, api_key, new_invention, features_text, similarity_threshold,
                   min_feature_matches, max_patents, features, patents, matches,
                   best_patents, search_calls, compare_calls, messages>>

\* lines 121-124: the fetched text is scored and the candidate kept or dropped
ScorePatent ==
    /\ pc = "score"
    /\ LET patent == Candidates[i + 1]
           scored == compare_features(features, patent_text, similarity_threshold)
       IN  /\ compare_calls' = Append(compare_calls, <<i + 1, patent_text>>)
           /\ matches' = scored
           /\ best_patents' =
                  append_if_enough(best_patents,
                                   <<title_of(patent), link_of(patent), scored>>,
                                   min_feature_matches)
    /\ i' = i + 1
    /\ pc' = "loop"
    /\ UNCHANGED <<serp, ratio, api_key, new_invention, features_text,
                   similarity_threshold, min_feature_matches, max_patents, features,
                   patents, patent_text, search_calls, scrape_calls, messages>>

\* lines 126-129 and 185-190: the loop is over, the result is shown
ShowResults ==
    /\ pc = "loop"
    /\ i = Len(Candidates)
    /\ pc' = "done"
    /\ messages' = Append(messages,
                     IF best_patents = <<>>
                     THEN [kind |-> "warning", text |-> MsgNoPatents]
                     ELSE [kind |-> "success",
                           text |-> MsgFound(Len(best_patents), min_feature_matches)])
    /\ UNCHANGED <<serp, ratio, api_key, new_invention, features_text,
                   similarity_threshold, min_feature_matches, max_patents, features,
                   patents, i, patent_text, matches, best_patents, search_calls,
                   scrape_calls, compare_calls>>

Next == Submit \/ FetchPatent \/ ScorePatent \/ ShowResults

Spec == Init /\ [][Next]_vars

-----------------------------------------------------------------------------
(* Properties *)

\* raw fields of the k-th result of the provider, and the run's N and M
RawLink(k) == DictGet(patents[k], "link", <<>>)
RawTitle(k) == DictGet(patents[k], "title", UntitledPatent)
Analyzable == Min(Len(patents), max_patents)

\* positions of the calls made so far, and the text scored for position k
ScrapedPositions == {scrape_calls[n][1] : n \in DOMAIN scrape_calls}
ComparedPositions == {compare_calls[n][1] : n \in DOMAIN compare_calls}
TextOf(k) == compare_calls[CHOOSE n \in DOMAIN compare_calls : compare_calls[n][1] = k][2]

\* the library's score of a feature against a text (both case-folded)
ScoreOf(feature, text) == ratio[<<Lower(feature), Lower(text)>>]

\* the last compare_features call has returned into matches
Compared == pc \in {"loop", "done"} /\ compare_calls # <<>>

Qualifying(feature, text) ==
    LET Above50(s) == ScoreOf(feature, s) > 50
    IN  SelectSeq(Split(text, <<".", " ">>), Above50)

\* C2: every entry's justification has 1 to 3 elements: the first up to 3
\* sentences scoring above 50, in document order, or else exactly the
\* placeholder; the cut-off is 50 whatever the caller's threshold is.
C2_JustificationBounded ==
    /\ Compared =>
           \A f \in DOMAIN matches :
               LET q == Qualifying(f, patent_text)
                   j == matches[f].justification
               IN  /\ Len(j) >= 1 /\ Len(j) <= 3
                   /\ q # <<>> => j = SubSeq(q, 1, Min(3, Len(q)))
                   /\ q = <<>> => j = <<NoSentenceFound>>
    /\ \A n \in DOMAIN best_patents :
           \A f \in DOMAIN best_patents[n][3] :
               /\ Len(best_patents[n][3][f].justification) >= 1
               /\ Len(best_patents[n][3][f].justification) <= 3

\* one entry was cut from more than 3 qualifying sentences down to 3, and
\* another, with no qualifying sentence, holds the placeholder
C2_Witness ==
    /\ Compared
    /\ similarity_threshold # 50
    /\ \E f, g \in DOMAIN matches :
           /\ Len(Qualifying(f, patent_text)) > 3
           /\ Len(matches[f].justification) = 3
           /\ Qualifying(g, patent_text) = <<>>
           /\ matches[g].justification = <<NoSentenceFound>>

\* the number of features the text scored for position k matched
MatchCount(k) ==
    Cardinality(DOMAIN compare_features(features, TextOf(k), similarity_threshold))

\* C3: at every point every record of best_patents has at least
\* min_feature_matches matched features, and a candidate that matched fewer
\* has no record.
C3_MinimumMatches ==
    /\ \A n \in DOMAIN best_patents :
           Cardinality(DOMAIN best_patents[n][3]) >= min_feature_matches
    /\ \A k \in ComparedPositions :
           (k <= i /\ MatchCount(k) < min_feature_matches) =>
               \A n \in DOMAIN best_patents :
                   <<best_patents[n][1], best_patents[n][2]>> # <<RawTitle(k), RawLink(k)>>

\* a run ended with a record kept and with a candidate that matched some
\* features, but fewer than the minimum, and was dropped
C3_Witness ==
    /\ pc = "done"
    /\ best_patents # <<>>
    /\ \E k \in ComparedPositions :
           MatchCount(k) >= 1 /\ MatchCount(k) < min_feature_matches

\* C4: scrape_patent_details and compare_features are each called at most
\* min(N, M) times, and only on results among the first M of the list.
C4_AtMostMaxPatents ==
    pc # "idle" =>
        /\ Len(scrape_calls) <= Analyzable
        /\ Len(compare_calls) <= Analyzable
        /\ \A k \in ScrapedPositions \cup ComparedPositions :
               k >= 1 /\ k <= max_patents /\ k <= Len(patents)

\* a run ended on a list longer than max_patents, with a result skipped for
\* lack of a link among the first M and a result with a link beyond them
C4_Witness ==
    /\ pc = "done"
    /\ Len(patents) > max_patents
    /\ scrape_calls # <<>>
    /\ \E k \in 1..max_patents : RawLink(k) = <<>>
    /\ \E k \in (max_patents + 1)..Len(patents) : RawLink(k) # <<>>

\* C5: a candidate whose link is missing or empty is never scraped, never
\* scored and never in the result, and the loop goes on to the candidates
\* after it.
C5_NoLinkSkipped ==
    /\ \A n \in DOMAIN scrape_calls :
           /\ RawLink(scrape_calls[n][1]) # <<>>
           /\ scrape_calls[n][2] = RawLink(scrape_calls[n][1])
    /\ \A k \in ComparedPositions : RawLink(k) # <<>>
    /\ \A n \in DOMAIN best_patents : best_patents[n][2] # <<>>
    /\ pc = "done" =>
           \A k \in 1..Analyzable : RawLink(k) # <<>> => k \in ScrapedPositions

\* a run ended after skipping a result without a link field and a result
\* with an empty link, and scraping a result that came after them
C5_Witness ==
    /\ pc = "done"
    /\ \E j, k, l \in 1..Analyzable :
           /\ "link" \notin DOMAIN patents[j]
           /\ "link" \in DOMAIN patents[k] /\ patents[k].link = <<>>
           /\ j < l /\ k < l /\ l \in ScrapedPositions
    /\ {j \in 1..Analyzable : RawLink(j) = <<>>} \cap ScrapedPositions = {}

\* fetching or parsing the page at url raises
Fails(url) == scrape_try(url).exception # <<>>

\* C6: a fetch or parse exception never leaves scrape_patent_details: the
\* candidate's text is a non-empty error string embedding the message, it is
\* scored, and every later candidate of the truncated list is still fetched
\* and scored.
C6_FetchFailureContained ==
    /\ pc # "crashed"
    /\ \A n \in DOMAIN scrape_calls :
           (Fails(scrape_calls[n][2]) /\ scrape_calls[n][1] <= i) =>
               /\ scrape_calls[n][1] \in ComparedPositions
               /\ TextOf(scrape_calls[n][1]) # <<>>
               /\ TextOf(scrape_calls[n][1]) =
                      ErrorPrefix \o scrape_try(scrape_calls[n][2]).exception[1]
    /\ pc = "done" =>
           \A k \in 1..Analyzable :
               RawLink(k) # <<>> => (k \in ScrapedPositions /\ k \in ComparedPositions)

\* a run ended in which a candidate's fetch failed, its error text matched a
\* feature, and a later candidate was fetched and scored
C6_Witness ==
    /\ pc = "done"
    /\ \E j, k \in ComparedPositions :
           /\ Fails(RawLink(j))
           /\ MatchCount(j) >= 1
           /\ j < k
           /\ ~Fails(RawLink(k))

\* C7: when the provider call fails, get_patent_results reports the error
\* and returns an empty list: nothing is fetched or scored, the result is
\* empty and no exception reaches the caller.
C7_ProviderFailureContained ==
    (serp.raises /\ search_calls # <<>>) =>
        /\ pc # "crashed"
        /\ patents = <<>>
        /\ scrape_calls = <<>>
        /\ compare_calls = <<>>
        /\ best_patents = <<>>
        /\ messages # <<>>
        /\ messages[1] = [kind |-> "error", text |-> ApiErrorPrefix \o serp.msg]

\* a run whose provider call failed has ended
C7_Witness ==
    /\ serp.raises
    /\ search_calls # <<>>
    /\ pc = "done"

\* every line of the text is empty or whitespace
AllLinesBlank(text) == \A n \in DOMAIN Split(text, <<"\n">>) : Strip(Split(text, <<"\n">>)[n]) = <<>>

\* C8: a submission whose feature list is empty after splitting on newlines
\* and dropping blank lines is rejected with an error, and neither the
\* provider nor any document URL is called.
C8_EmptyFeaturesRejected ==
    (pc # "idle" /\ AllLinesBlank(features_text)) =>
        /\ pc = "rejected"
        /\ Len(messages) = 1
        /\ messages[1].kind = "error"
        /\ search_calls = <<>>
        /\ scrape_calls = <<>>

\* a submission with a key, a description and a features text of blank
\* lines only was rejected
C8_Witness ==
    /\ pc = "rejected"
    /\ api_key # <<>>
    /\ new_invention # <<>>
    /\ features_text # <<>>
    /\ AllLinesBlank(features_text)
    /\ messages = <<[kind |-> "error", text |-> MsgNoValidFeatures]>>

\* C9 as stated: a submission whose API key or description is empty or
\* whitespace-only never queries the provider and fetches nothing.
C9_BlankInputRejected ==
    (pc # "idle" /\ (Strip(api_key) = <<>> \/ Strip(new_invention) = <<>>)) =>
        /\ search_calls = <<>>
        /\ scrape_calls = <<>>

\* C9 amended: a submission whose API key or description is empty is
\* rejected with an error before any external call.
C9_EmptyInputRejected ==
    (pc # "idle" /\ (api_key = <<>> \/ new_invention = <<>>)) =>
        /\ pc = "rejected"
        /\ Len(messages) = 1
        /\ messages[1].kind = "error"
        /\ search_calls = <<>>
        /\ scrape_calls = <<>>

\* a submission with a key and valid features but an empty description was
\* rejected
C9_Witness ==
    /\ pc = "rejected"
    /\ api_key # <<>>
    /\ new_invention = <<>>
    /\ ~AllLinesBlank(features_text)
    /\ messages = <<[kind |-> "error", text |-> MsgNoInvention]>>

\* the positions among the first n that have a link and enough matches
Retained(n) ==
    LET Keeps(k) == RawLink(k) # <<>> /\ MatchCount(k) >= min_feature_matches
    IN  SelectSeq([k \in 1..n |-> k], Keeps)

\* C10: best_patents is exactly the records, in provider order, of the
\* results processed so far that have a link and at least
\* min_feature_matches matches; the returned list is that of the first
\* max_patents results.
C10_RetrievalOrder ==
    /\ LET kept == Retained(i)
       IN  /\ Len(best_patents) = Len(kept)
           /\ \A n \in DOMAIN best_patents :
                  /\ best_patents[n][1] = RawTitle(kept[n])
                  /\ best_patents[n][2] = RawLink(kept[n])
                  /\ best_patents[n][3] =
                         compare_features(features, TextOf(kept[n]), similarity_threshold)
    /\ pc = "done" => i = Analyzable

\* a run ended with two records kept, a scored candidate dropped, and
\* results beyond max_patents
C10_Witness ==
    /\ pc = "done"
    /\ Len(best_patents) >= 2
    /\ Len(best_patents) < Len(compare_calls)
    /\ Len(patents) > max_patents
    /\ best_patents[1][1] # best_patents[2][1]

====
